---------------------------- MODULE Spec2Model ----------------------------
(***************************************************************************)
(* handy-mpv (src/app.py): a script that keeps a network haptic device in  *)
(* step with a video played by mpv.  The model covers the module-level     *)
(* startup sequence, the clock-offset synchronizer (TimeSyncer and its     *)
(* persisted TimeSyncInfo record), the playback sync controller            *)
(* (HandyPlayer.sync_play) and the player event handlers.                  *)
(*                                                                         *)
(* Units.  time_ms() values are milliseconds.  Values the code holds in    *)
(* nanoseconds (time.time_ns(), last_saved, HOUR_NS) are carried here in   *)
(* units of 10^6 ns, so that they fit TLC's 32-bit integers: the model's   *)
(* HOUR_NS is 3600_000_000_000 / 1_000_000, and one variable, clock, is    *)
(* both time.time_ns() (in that unit) and time_ms() = int(time_ns()/10^6). *)
(* Python integers are unbounded, so no width is modelled.                 *)
(*                                                                         *)
(* average_offset is a Python float obtained by dividing two small         *)
(* integers; it is modelled as the exact fraction in lowest terms, which   *)
(* determines the float and every int() truncation taken of it here.       *)
(***************************************************************************)
EXTENDS Integers, Sequences, FiniteSets, TLC

\* ------------------------------------------------------------------------
\* Program constants
\* ------------------------------------------------------------------------

\* app.py:24 (in units of 10^6 ns, see above)
HOUR_NS == 3600000

\* app.py:167, the iteration count of update_server_time
SYNC_ITERATIONS == 15

\* app.py:245-246, the mode the script requires of the device
REQUIRED_MODE == 1

\* ------------------------------------------------------------------------
\* Bounds of the model
\* ------------------------------------------------------------------------

\* the local clock when the first process run starts
StartClock == 7200000

\* the shortest round trip of a servertime request; a round trip takes
\* BaseRtd or BaseRtd + 1 ms
BaseRtd == 40

\* device clock minus local clock, in ms
DeviceSkew == 250

\* the round trips of a run that may take the longer delay: its first
\* SlowRequests ones
SlowRequests == 2

\* calls of sync_play and player.command logged per run
MaxCalls == 3

\* process runs (the script is started again after it ended)
MaxRuns == 2

\* ms between two player events
EventGap == 1000

\* a playback position other than 0, in ms
SomePosition == 1500

\* ------------------------------------------------------------------------
\* Arithmetic
\* ------------------------------------------------------------------------

Abs(n) == IF n < 0 THEN -n ELSE n

RECURSIVE Gcd(_, _)
Gcd(a, b) == IF b = 0 THEN a ELSE Gcd(b, a % b)

\* Python's int(n / d) for d > 0: true division, then truncation toward zero
Trunc(n, d) == IF n >= 0 THEN n \div d ELSE -((-n) \div d)

\* the float n / d (d > 0) as a fraction in lowest terms
Frac(n, d) ==
    LET g == Gcd(Abs(n), d)
    IN  [num |-> n \div g, den |-> d \div g]

\* int(a + f + b) for integers a, b and a fraction f
TruncSum(a, f, b) == Trunc((a + b) * f.den + f.num, f.den)

Last(s) == s[Len(s)]

\* ------------------------------------------------------------------------
\* TimeSyncInfo: the persisted record and its file
\* ------------------------------------------------------------------------

\* TimeSyncInfo(...), the dataclass
TimeSyncInfo(last_saved, average_offset, initial_offset) ==
    [last_saved |-> last_saved,
     average_offset |-> average_offset,
     initial_offset |-> initial_offset]

\* TimeSyncInfo() with the dataclass defaults
DefaultTimeSyncInfo == TimeSyncInfo(0, Frac(0, 1), 0)

\* the sync file: absent, a JSON object, or content json.load / the three
\* key lookups of from_file cannot read
AbsentFile == [kind |-> "absent"]
MalformedFile == [kind |-> "malformed"]

\* os.path.exists(path)
PathExists(f) == f.kind # "absent"

\* TimeSyncInfo.write_to: the file is created when absent, then truncated and
\* rewritten with the three keys
WriteTo(tsi, f) ==
    [kind |-> "json",
     obj |-> [last_saved |-> tsi.last_saved,
              time_sync_average_offset |-> tsi.average_offset,
              time_sync_initial_offset |-> tsi.initial_offset]]

\* TimeSyncInfo.from_file raises on content it cannot read
FromFileRaises(f) == f.kind # "json"

\* from_file that reads the initial offset's key for the average too
FromFileInitialTwice(f) ==
    TimeSyncInfo(f.obj.last_saved,
                 Frac(f.obj.time_sync_initial_offset, 1),
                 f.obj.time_sync_initial_offset)

\* TimeSyncInfo.from_file on a readable file
FromFile(f) ==
    TimeSyncInfo(f.obj.last_saved,
                 f.obj.time_sync_average_offset,
                 f.obj.time_sync_initial_offset)

\* newer_than with the comparison not strict
NewerThanOrEqual(tsi, time_ns) == tsi.last_saved >= time_ns

\* TimeSyncInfo.newer_than
NewerThan(tsi, time_ns) == tsi.last_saved > time_ns

\* ------------------------------------------------------------------------
\* TimeSyncer
\* ------------------------------------------------------------------------

\* TimeSyncer.__init__
NewTimeSyncer ==
    [aggregate_offset |-> 0,
     sync_count |-> 0,
     average_offset |-> Frac(0, 1),
     initial_offset |-> 0]

\* load that takes over the initial offset and forgets the average
LoadInitialOnly(s, tsi) ==
    [s EXCEPT !.initial_offset = tsi.initial_offset]

\* TimeSyncer.load
Load(s, tsi) ==
    [s EXCEPT !.average_offset = tsi.average_offset,
              !.initial_offset = tsi.initial_offset]

\* TimeSyncer.get_server_time at local time time_ms
GetServerTime(s, time_ms) ==
    TruncSum(time_ms, s.average_offset, s.initial_offset)

\* the estimate without the half round trip
EstimatedServerTimeNowNoDelay(send_time, server_time, time_now) == server_time

\* estimated_server_time_now = int(server_time + rtd / 2)
EstimatedServerTimeNow(send_time, server_time, time_now) ==
    Trunc(2 * server_time + (time_now - send_time), 2)

\* update_server_time that sets initial_offset anew in every iteration
UpdateServerTimeReanchors(s, send_time, server_time, time_now) ==
    LET est == EstimatedServerTimeNow(send_time, server_time, time_now)
        offset == est - time_now - s.initial_offset
        aggregate == s.aggregate_offset + offset
    IN  IF s.sync_count = 0
        THEN [s EXCEPT !.initial_offset = est - time_now,
                       !.sync_count = s.sync_count + 1]
        ELSE [s EXCEPT !.initial_offset = est - time_now,
                       !.aggregate_offset = aggregate,
                       !.average_offset = Frac(aggregate, s.sync_count),
                       !.sync_count = s.sync_count + 1]

\* update_server_time that divides by the count of all samples, the first
\* included
UpdateServerTimeCountsFirst(s, send_time, server_time, time_now) ==
    LET est == EstimatedServerTimeNow(send_time, server_time, time_now)
        offset == est - time_now - s.initial_offset
        aggregate == s.aggregate_offset + offset
    IN  IF s.sync_count = 0
        THEN [s EXCEPT !.initial_offset = est - time_now,
                       !.sync_count = s.sync_count + 1]
        ELSE [s EXCEPT !.aggregate_offset = aggregate,
                       !.average_offset = Frac(aggregate, s.sync_count + 1),
                       !.sync_count = s.sync_count + 1]

\* update_server_time that accumulates the whole offset of a later sample, the
\* anchor not taken off
UpdateServerTimeWholeOffset(s, send_time, server_time, time_now) ==
    LET est == EstimatedServerTimeNow(send_time, server_time, time_now)
        offset == est - time_now
        aggregate == s.aggregate_offset + offset
    IN  IF s.sync_count = 0
        THEN [s EXCEPT !.initial_offset = est - time_now,
                       !.sync_count = s.sync_count + 1]
        ELSE [s EXCEPT !.aggregate_offset = aggregate,
                       !.average_offset = Frac(aggregate, s.sync_count),
                       !.sync_count = s.sync_count + 1]

\* one iteration of TimeSyncer.update_server_time, from the three readings it
\* takes to the increment of sync_count
UpdateServerTime(s, send_time, server_time, time_now) ==
    LET est == EstimatedServerTimeNow(send_time, server_time, time_now)
        offset == est - time_now - s.initial_offset
        aggregate == s.aggregate_offset + offset
    IN  IF s.sync_count = 0
        THEN [s EXCEPT !.initial_offset = est - time_now,
                       !.sync_count = s.sync_count + 1]
        ELSE [s EXCEPT !.aggregate_offset = aggregate,
                       !.average_offset = Frac(aggregate, s.sync_count),
                       !.sync_count = s.sync_count + 1]

\* the test with the bound off by one: a sixteenth iteration
SamplingDoneOneLate(s) == ~(s.sync_count < SYNC_ITERATIONS + 1)

\* the test that ends the recursion of update_server_time
SamplingDone(s) == ~(s.sync_count < SYNC_ITERATIONS)

\* save_to that writes the sum of the residuals where the average belongs
SaveToAggregate(s, time_ns, f) ==
    WriteTo(TimeSyncInfo(time_ns, Frac(s.aggregate_offset, 1), s.initial_offset), f)

\* TimeSyncer.save_to at time.time_ns() = time_ns
SaveTo(s, time_ns, f) ==
    WriteTo(TimeSyncInfo(time_ns, s.average_offset, s.initial_offset), f)

\* ------------------------------------------------------------------------
\* HandyPlayer.sync_play
\* ------------------------------------------------------------------------

\* the payload sync_play builds
Payload(s, time_ms, time) ==
    [estimatedServerTime |-> GetServerTime(s, time_ms),
     startTime |-> time]

\* client.stop(): PUT hssp/stop, no body
StopCommand == [to |-> "device", cmd |-> "stop"]

\* client.play(obj): PUT hssp/play with the payload as JSON body
PlayCommand(obj) == [to |-> "device", cmd |-> "play", json |-> obj]

\* player.command("quit")
QuitCommand == [to |-> "player", cmd |-> "quit"]

\* sync_play with the else lost: the stop form goes on to play
SyncPlayFallsThrough(s, time_ms, time, stopped) ==
    IF stopped
    THEN <<StopCommand, PlayCommand(Payload(s, time_ms, time))>>
    ELSE <<PlayCommand(Payload(s, time_ms, time))>>

\* the requests one call of sync_play(time, stopped=stopped) issues, the local
\* clock reading time_ms
SyncPlay(s, time_ms, time, stopped) ==
    IF stopped
    THEN <<StopCommand>>
    ELSE <<PlayCommand(Payload(s, time_ms, time))>>

\* get_playback_time_ms: None when mpv has no playback-time
None == -1
PlaybackTimes == {None, SomePosition}

\* ------------------------------------------------------------------------
\* State
\* ------------------------------------------------------------------------

VARIABLES
    clock,          \* the local clock: time_ms(), and time.time_ns() in 10^6 ns,
                    \* when the main thread read it last
    file,           \* the content of config.time_sync_file
    device_mode,    \* the mode the device is in
    device_script,  \* TRUE once hssp/setup registered a script on the device
    runs,           \* process runs started so far
    started,        \* the local clock when this run started
    pc,             \* where the main thread of the script is
    error,          \* what ended the script when pc = "crashed"
    syncer,         \* the TimeSyncer object
    sync_state,     \* Uninitialized, Loaded, Sampling or Synced
    send_time,      \* send_time of the servertime request in flight
    requests,       \* servertime requests sent in this run
    observed,       \* history: what the samples of this run were
    player,         \* the mpv player: none, running, quitting, shutdown
    paused,         \* mpv's pause property
    calls,          \* history: the calls of sync_play and player.command of this
                    \* run, each with the requests and commands it sent
    uncaught,       \* TRUE when the last event handler ended by an exception
    event,          \* history: the player event handled last
    record,         \* the TimeSyncInfo a file round trip writes (RoundTripSpec)
    loaded          \* what from_file returned in a file round trip

vars == <<clock, file, device_mode, device_script, runs, started, pc, error, syncer,
          sync_state, send_time, requests, observed, player, paused, calls,
          uncaught, event, record, loaded>>

envVars == <<clock, file, device_mode, device_script, runs, started>>
syncVars == <<syncer, sync_state, send_time, requests, observed>>
playVars == <<player, paused, calls, uncaught, event>>
tripVars == <<record, loaded>>

\* no sample observed yet
NoSamples == [first |-> <<>>, later_sum |-> 0, jitter |-> FALSE, varied |-> FALSE]

\* the server time at receipt by the midpoint assumption, S + rtd/2 cut to an
\* integer, for S and rtd that are not negative
Midpoint(t0, S, t1) == S + (t1 - t0) \div 2

\* the history after a sample with readings send_time, server_time, time_now:
\* the first sample's readings, the sum over the later samples of
\* (estimated server time - time_now), whether a later sample differed from
\* the first in round-trip delay or in server_time - time_now (jitter), and
\* whether one differed from it in any reading (varied)
Observe(o, t0, S, t1) ==
    IF o.first = <<>>
    THEN [o EXCEPT !.first = <<t0, S, t1>>]
    ELSE [o EXCEPT
            !.later_sum = o.later_sum + (Midpoint(t0, S, t1) - t1),
            !.jitter = o.jitter
                       \/ t1 - t0 # o.first[3] - o.first[1]
                       \/ S - t1 # o.first[2] - o.first[3],
            !.varied = o.varied \/ <<t0, S, t1>> # o.first]

\* no player event handled yet
NoEvent == [name |-> "none", pos |-> None, value |-> FALSE, ok |-> TRUE, at |-> 0]

\* what a new process starts with: module-level state before line 232
ProcessStart ==
    /\ pc = "config"
    /\ error = "none"
    /\ syncer = NewTimeSyncer
    /\ sync_state = "Uninitialized"
    /\ send_time = 0
    /\ requests = 0
    /\ observed = NoSamples
    /\ player = "none"
    /\ paused = FALSE
    /\ calls = <<>>
    /\ uncaught = FALSE
    /\ event = NoEvent

\* the sync files a first run may find: none, an unreadable one, and records
\* an earlier run wrote 2 h, exactly 1 h, 1 h less one unit, and 30 min ago
InitialFiles ==
    {AbsentFile, MalformedFile}
    \cup { WriteTo(TimeSyncInfo(StartClock - age, Frac(3, 14), DeviceSkew - 1),
                   AbsentFile)
           : age \in {2 * HOUR_NS, HOUR_NS, HOUR_NS - 1, HOUR_NS \div 2} }

DeviceModes == {0, REQUIRED_MODE}

Init ==
    /\ clock = StartClock
    /\ file \in InitialFiles
    /\ device_mode \in DeviceModes
    /\ device_script = FALSE
    /\ runs = 1
    /\ started = StartClock
    /\ ProcessStart
    /\ record = DefaultTimeSyncInfo
    /\ loaded = DefaultTimeSyncInfo

\* an exception that is swallowed, startup going on to the player
CrashGoesOn(kind) ==
    /\ pc' = "mpv"
    /\ error' = kind

\* an uncaught exception in the main thread ends the script
Crash(kind) ==
    /\ pc' = "crashed"
    /\ error' = kind

\* ------------------------------------------------------------------------
\* Startup: module level, lines 232-261
\* ------------------------------------------------------------------------

\* Config.load(): open and tomllib.load raise on a missing or malformed file
LoadConfig ==
    /\ pc = "config"
    /\ \E ok \in BOOLEAN :
        IF ok THEN pc' = "status" /\ error' = error
              ELSE Crash("ConfigError")
    /\ UNCHANGED <<tripVars, envVars, syncVars, playVars>>

\* client.status() and the mode test
Status ==
    /\ pc = "status"
    /\ \E ok \in BOOLEAN :
        IF ok
        THEN /\ pc' = IF device_mode # REQUIRED_MODE THEN "set_mode" ELSE "upload"
             /\ error' = error
        ELSE Crash("DeviceUnreachable")
    /\ UNCHANGED <<tripVars, envVars, syncVars, playVars>>

\* client.set_mode(1): the response is logged and not looked at, so a device
\* that does not change its mode goes unnoticed
SetMode ==
    /\ pc = "set_mode"
    /\ \E outcome \in {"applied", "rejected", "unreachable"} :
        /\ device_mode' = IF outcome = "applied" THEN REQUIRED_MODE ELSE device_mode
        /\ IF outcome = "unreachable"
           THEN Crash("DeviceUnreachable")
           ELSE pc' = "upload" /\ error' = error
    /\ UNCHANGED <<tripVars, clock, file, device_script, runs, started, syncVars, playVars>>

\* client.upload_script(script): open(path, 'rb') raises when the script file
\* does not exist
UploadScript ==
    /\ pc = "upload"
    /\ \E outcome \in {"ok", "no_script", "unreachable"} :
        /\ device_script' = (device_script \/ outcome = "ok")
        /\ CASE outcome = "ok" -> pc' = "sync" /\ error' = error
             [] outcome = "no_script" -> Crash("ScriptNotFound")
             [] outcome = "unreachable" -> Crash("DeviceUnreachable")
    /\ UNCHANGED <<tripVars, clock, file, device_mode, runs, started, syncVars, playVars>>

\* ------------------------------------------------------------------------
\* Clock synchronization: syncer.update_with_file, line 253
\* ------------------------------------------------------------------------

\* update_with_file that saves on the load path too, last_saved set anew
UpdateWithFileRefreshes ==
    /\ pc = "sync"
    /\ IF PathExists(file) /\ FromFileRaises(file)
       THEN /\ Crash("ParseError")
            /\ UNCHANGED <<syncer, sync_state, file>>
       ELSE LET tsi == IF PathExists(file) THEN FromFile(file)
                                           ELSE DefaultTimeSyncInfo
            IN  IF NewerThan(tsi, clock - HOUR_NS)
                THEN /\ syncer' = Load(syncer, tsi)
                     /\ file' = SaveTo(syncer', clock, file)
                     /\ sync_state' = "Loaded"
                     /\ pc' = "mpv"
                     /\ error' = error
                ELSE /\ syncer' = syncer
                     /\ file' = file
                     /\ sync_state' = "Sampling"
                     /\ pc' = "send"
                     /\ error' = error
    /\ UNCHANGED <<tripVars, clock, device_mode, device_script, runs, started,
                   send_time, requests, observed, playVars>>

\* update_with_file up to its branch: the record is read (a missing file
\* gives the default record, an unreadable one raises), then either loaded
\* or the sampling starts
UpdateWithFile ==
    /\ pc = "sync"
    /\ IF PathExists(file) /\ FromFileRaises(file)
       THEN /\ Crash("ParseError")
            /\ UNCHANGED <<tripVars, syncer, sync_state>>
       ELSE LET tsi == IF PathExists(file) THEN FromFile(file)
                                           ELSE DefaultTimeSyncInfo
            IN  IF NewerThan(tsi, clock - HOUR_NS)
                THEN /\ syncer' = Load(syncer, tsi)
                     /\ sync_state' = "Loaded"
                     /\ pc' = "mpv"
                     /\ error' = error
                ELSE /\ syncer' = syncer
                     /\ sync_state' = "Sampling"
                     /\ pc' = "send"
                     /\ error' = error
    /\ UNCHANGED <<tripVars, envVars, send_time, requests, observed, playVars>>

\* update_server_time, lines 149-150: send_time is read (the local clock
\* showing t0) and the servertime request goes out
ServertimeRequest(t0) ==
    /\ pc = "send"
    /\ clock' = t0
    /\ send_time' = t0
    /\ requests' = requests + 1
    /\ pc' = "recv"
    /\ UNCHANGED <<tripVars, file, device_mode, device_script, runs, started, error, syncer,
                   sync_state, observed, playVars>>

\* update_server_time, lines 150-171: the response S arrives, time_now is
\* read (the local clock showing t1), the offsets are updated and the
\* function either recurses or returns
ServertimeResponse(S, t1) ==
    /\ pc = "recv"
    /\ clock' = t1
    /\ syncer' = UpdateServerTime(syncer, send_time, S, t1)
    /\ observed' = Observe(observed, send_time, S, t1)
    /\ IF SamplingDone(syncer')
       THEN pc' = "save" /\ sync_state' = "Synced"
       ELSE pc' = "send" /\ sync_state' = sync_state
    /\ UNCHANGED <<tripVars, file, device_mode, device_script, runs, started, error, send_time,
                   requests, playVars>>

\* a failed servertime request that is sent again
ServertimeFailsRetries ==
    /\ pc = "recv"
    /\ pc' = "send"
    /\ UNCHANGED <<tripVars, envVars, error, syncVars, playVars>>

\* the servertime request raises (no connection, or a response without
\* serverTime): the exception leaves update_with_file and ends the script
ServertimeFails ==
    /\ pc = "recv"
    /\ Crash("DeviceUnreachable")
    /\ UNCHANGED <<tripVars, envVars, syncVars, playVars>>

\* round-trip delays the network can give the request in flight
Rtds == IF requests <= SlowRequests THEN {BaseRtd, BaseRtd + 1} ELSE {BaseRtd}

\* what the device answers to a request sent at local time t0: its own clock
\* when the request arrives, half a shortest round trip later
DeviceTime(t0) == t0 + BaseRtd \div 2 + DeviceSkew

SendServertime == ServertimeRequest(clock)

RecvServertime == \E rtd \in Rtds : ServertimeResponse(DeviceTime(send_time), clock + rtd)

\* update_with_file, line 183: save_to after the sampling returned
SaveSyncFile ==
    /\ pc = "save"
    /\ file' = SaveTo(syncer, clock, file)
    /\ pc' = "mpv"
    /\ UNCHANGED <<tripVars, clock, device_mode, device_script, runs, started, error, syncVars,
                   playVars>>

\* lines 255-309: the player is created, the file is played, the key
\* bindings, the pause observer and the event callback are registered
StartPlayer ==
    /\ pc = "mpv"
    /\ player' = "running"
    /\ paused' = FALSE
    /\ pc' = "wait"
    /\ UNCHANGED <<tripVars, envVars, error, syncVars, calls, uncaught, event>>

\* ------------------------------------------------------------------------
\* Playback: the event handlers, lines 209-217 and 264-315
\* ------------------------------------------------------------------------

\* Each handler below is the sequence of calls it makes when none of them
\* raises; pos is what get_playback_time_ms returns and t the local clock
\* when sync_play reads it.  A call is logged with what it sent and with
\* whether it returned or raised.

\* hplayer.sync_play(time, stopped=stopped)
SyncPlayCall(s, t, time, stopped) ==
    [fn |-> "sync_play", time |-> time, stopped |-> stopped,
     sent |-> SyncPlay(s, t, time, stopped), returned |-> TRUE]

\* player.command("quit")
PlayerQuitCall ==
    [fn |-> "player.command", sent |-> <<QuitCommand>>, returned |-> TRUE]

\* the assert of file_restart and _s_binding
AssertFails(pos) == pos = None

\* file_restart, reached from on_event for "playback-restart"
FileRestart(s, t, pos) ==
    IF AssertFails(pos) THEN <<>> ELSE <<SyncPlayCall(s, t, pos, FALSE)>>

\* video_pause_unpause, the observer of the pause property
VideoPauseUnpause(s, t, new_value, pos) ==
    IF new_value
    THEN <<SyncPlayCall(s, t, 0, TRUE)>>
    ELSE IF pos # None THEN <<SyncPlayCall(s, t, pos, FALSE)>> ELSE <<>>

\* callback_shutdown that quits the player before it stops the device
CallbackShutdownQuitsFirst(s, t) == <<PlayerQuitCall, SyncPlayCall(s, t, 0, TRUE)>>

\* callback_shutdown, reached from on_event for "shutdown"
CallbackShutdown(s, t) == <<SyncPlayCall(s, t, 0, TRUE), PlayerQuitCall>>

\* HandyPlayer._q_binding
QBinding(s, t) == <<SyncPlayCall(s, t, 0, TRUE), PlayerQuitCall>>

\* HandyPlayer._s_binding
SBinding(s, t, pos) ==
    IF AssertFails(pos) THEN <<>> ELSE <<SyncPlayCall(s, t, pos, FALSE)>>

\* the block around wait_for_playback: nothing when it returns, one
\* sync_play(0, stopped=True) when it raised an Exception
AfterWait(s, t, raised) ==
    IF raised THEN <<SyncPlayCall(s, t, 0, TRUE)>> ELSE <<>>

\* what a handler gets done of the calls cs: when the device request of its
\* sync_play raises (ok = FALSE) the handler ends there, the request sent and
\* the rest not called
Issued(cs, ok) ==
    IF ok \/ cs = <<>> THEN cs ELSE <<[cs[1] EXCEPT !.returned = FALSE]>>

\* an event (or key, or the end of the wait) is handled: name and the values
\* the handler read go to the history, with the length of the log before
Handler(name, pos, value, cs, ok, assert_failed) ==
    /\ Len(calls) + Len(cs) <= MaxCalls
    /\ calls' = calls \o Issued(cs, ok)
    /\ uncaught' = (assert_failed \/ (cs # <<>> /\ ~ok))
    /\ event' = [name |-> name, pos |-> pos, value |-> value,
                 ok |-> (ok \/ cs = <<>>), at |-> Len(calls)]

\* time_ms() as a handler reads it: during playback the variable clock stays
\* at the reading the startup took last, and the calls of the handlers are
\* EventGap apart
HandlerClock == clock + EventGap * (Len(calls) + 1)

Playing == pc = "wait" /\ player = "running"

\* mpv delivers playback-restart (playback started, or a seek ended)
EvPlaybackRestart ==
    /\ Playing
    /\ \E pos \in PlaybackTimes, ok \in BOOLEAN :
        Handler("playback-restart", pos, FALSE,
                FileRestart(syncer, HandlerClock, pos), ok, AssertFails(pos))
    /\ UNCHANGED <<tripVars, envVars, pc, error, syncVars, player, paused>>

\* the pause property changes and mpv notifies the observer
EvPauseChanged ==
    /\ Playing
    /\ paused' = ~paused
    /\ \E pos \in PlaybackTimes, ok \in BOOLEAN :
        Handler("pause", pos, paused',
                VideoPauseUnpause(syncer, HandlerClock, paused', pos), ok, FALSE)
    /\ UNCHANGED <<tripVars, envVars, pc, error, syncVars, player>>

\* the s key
KeyS ==
    /\ Playing
    /\ \E pos \in PlaybackTimes, ok \in BOOLEAN :
        Handler("s", pos, FALSE,
                SBinding(syncer, HandlerClock, pos), ok, AssertFails(pos))
    /\ UNCHANGED <<tripVars, envVars, pc, error, syncVars, player, paused>>

\* the q key: after the quit command the player is shutting down
KeyQ ==
    /\ Playing
    /\ \E ok \in BOOLEAN :
        /\ Handler("q", None, FALSE, QBinding(syncer, HandlerClock), ok, FALSE)
        /\ player' = IF ok THEN "quitting" ELSE player
    /\ UNCHANGED <<tripVars, envVars, pc, error, syncVars, paused>>

\* mpv delivers shutdown: the player was told to quit, or its window was
\* closed
EvShutdown ==
    /\ pc = "wait"
    /\ player \in {"running", "quitting"}
    /\ player' = "shutdown"
    /\ \E ok \in BOOLEAN :
        Handler("shutdown", None, FALSE,
                CallbackShutdown(syncer, HandlerClock), ok, FALSE)
    /\ UNCHANGED <<tripVars, envVars, pc, error, syncVars, paused>>

\* lines 312-313: wait_for_playback returns (the file has ended) and the
\* script runs off its end
WaitReturns ==
    /\ pc = "wait"
    /\ Handler("wait-returned", None, FALSE,
               AfterWait(syncer, HandlerClock, FALSE), TRUE, FALSE)
    /\ pc' = "exited"
    /\ UNCHANGED <<tripVars, envVars, error, syncVars, player, paused>>

\* lines 314-315: wait_for_playback raises an Exception; when the stop
\* request raises too, the script ends by that exception
WaitRaises ==
    /\ pc = "wait"
    /\ \E ok \in BOOLEAN :
        /\ Handler("wait-raised", None, FALSE,
                   AfterWait(syncer, HandlerClock, TRUE), ok, FALSE)
        /\ IF ok THEN pc' = "exited" /\ error' = error
                 ELSE Crash("DeviceUnreachable")
    /\ UNCHANGED <<tripVars, envVars, syncVars, player, paused>>

\* ------------------------------------------------------------------------
\* The script is run again
\* ------------------------------------------------------------------------

\* the script is started again half an hour or an hour after it was started
\* the last time
RestartDelays == {HOUR_NS \div 2, HOUR_NS}

Restart ==
    /\ pc \in {"exited", "crashed"}
    /\ runs < MaxRuns
    /\ runs' = runs + 1
    /\ \E d \in RestartDelays : clock' = started + d
    /\ started' = clock'
    /\ pc' = "config"
    /\ error' = "none"
    /\ syncer' = NewTimeSyncer
    /\ sync_state' = "Uninitialized"
    /\ send_time' = 0
    /\ requests' = 0
    /\ observed' = NoSamples
    /\ player' = "none"
    /\ paused' = FALSE
    /\ calls' = <<>>
    /\ uncaught' = FALSE
    /\ event' = NoEvent
    /\ UNCHANGED <<tripVars, file, device_mode, device_script>>

Next ==
    \/ LoadConfig
    \/ Status
    \/ SetMode
    \/ UploadScript
    \/ UpdateWithFile
    \/ SendServertime
    \/ RecvServertime
    \/ ServertimeFails
    \/ SaveSyncFile
    \/ StartPlayer
    \/ EvPlaybackRestart
    \/ EvPauseChanged
    \/ KeyS
    \/ KeyQ
    \/ EvShutdown
    \/ WaitReturns
    \/ WaitRaises
    \/ Restart

Spec == Init /\ [][Next]_vars

\* ------------------------------------------------------------------------
\* The sampling alone, on a simulated clock and a simulated device
\* ------------------------------------------------------------------------

\* update_server_time called on a new TimeSyncer; every reading of the local
\* clock and every servertime answer is an input: the send time, the
\* round-trip delay and the server time of each sample are drawn from these
\* sets (server times are not negative, as milliseconds since 1970 are)
SimSendTimes == {460, 463}
SimRtds == {40, 41}
SimServerTimes == {1000000, 1000003}

\* local times at which get_server_time is asked after the sampling
SimLocalTimes == {500, 501, 7200000}

SamplingInit ==
    /\ clock \in SimSendTimes
    /\ file = AbsentFile
    /\ device_mode = REQUIRED_MODE
    /\ device_script = TRUE
    /\ runs = 1
    /\ started = clock
    /\ pc = "send"
    /\ error = "none"
    /\ syncer = NewTimeSyncer
    /\ sync_state = "Sampling"
    /\ send_time = 0
    /\ requests = 0
    /\ observed = NoSamples
    /\ player = "none"
    /\ paused = FALSE
    /\ calls = <<>>
    /\ uncaught = FALSE
    /\ event = NoEvent
    /\ record = DefaultTimeSyncInfo
    /\ loaded = DefaultTimeSyncInfo

SimSend == \E t0 \in SimSendTimes : ServertimeRequest(t0)

SimRecv ==
    \E rtd \in SimRtds, S \in SimServerTimes : ServertimeResponse(S, send_time + rtd)

SamplingNext ==
    \/ SimSend
    \/ SimRecv

SamplingSpec == SamplingInit /\ [][SamplingNext]_vars

\* the same with every request answered and every answer processed: the
\* calls block, and the thread that makes them keeps running
SamplingLiveSpec == SamplingSpec /\ WF_vars(SamplingNext)

\* ------------------------------------------------------------------------
\* The file round trip alone: write_to, then from_file, on one path
\* ------------------------------------------------------------------------

\* the records written: last_saved 0 (the default), a time.time_ns() reading
\* and one an hour later; average_offset 0, a positive and a negative float;
\* initial_offset 0, negative and positive
TripRecords ==
    { TimeSyncInfo(ls, avg, ini) :
        ls \in {0, StartClock, StartClock + HOUR_NS},
        avg \in {Frac(0, 1), Frac(3, 14), Frac(-5, 2)},
        ini \in {0, -3, DeviceSkew} }

\* what the path holds before the first write: nothing, or content that is
\* no record; before a later write it holds the record written before
TripFiles == {AbsentFile, MalformedFile}

TripInit ==
    /\ clock = StartClock
    /\ file \in TripFiles
    /\ device_mode = REQUIRED_MODE
    /\ device_script = FALSE
    /\ runs = 1
    /\ started = StartClock
    /\ pc = "write"
    /\ error = "none"
    /\ syncer = NewTimeSyncer
    /\ sync_state = "Uninitialized"
    /\ send_time = 0
    /\ requests = 0
    /\ observed = NoSamples
    /\ player = "none"
    /\ paused = FALSE
    /\ calls = <<>>
    /\ uncaught = FALSE
    /\ event = NoEvent
    /\ record \in TripRecords
    /\ loaded = DefaultTimeSyncInfo

\* record.write_to(path)
TripWrite ==
    /\ pc = "write"
    /\ file' = WriteTo(record, file)
    /\ pc' = "read"
    /\ UNCHANGED <<tripVars, clock, device_mode, device_script, runs, started, error,
                   syncVars, playVars>>

\* TimeSyncInfo.from_file(path)
TripRead ==
    /\ pc = "read"
    /\ IF FromFileRaises(file)
       THEN Crash("ParseError") /\ loaded' = loaded
       ELSE /\ loaded' = FromFile(file)
            /\ pc' = "done"
            /\ error' = error
    /\ UNCHANGED <<record, envVars, syncVars, playVars>>

\* another record is written to the path, which now holds the one before
TripAgain ==
    /\ pc = "done"
    /\ record' \in TripRecords \ {record}
    /\ pc' = "write"
    /\ UNCHANGED <<loaded, envVars, error, syncVars, playVars>>

TripNext ==
    \/ TripWrite
    \/ TripRead
    \/ TripAgain

RoundTripSpec == TripInit /\ [][TripNext]_vars

\* ------------------------------------------------------------------------
\* Properties
\* ------------------------------------------------------------------------

\* the record in the sync file was saved less than an hour before the clock's
\* present reading
FreshRecord == file.kind = "json" /\ clock - file.obj.last_saved < HOUR_NS

\* the sync file is missing, or its record was saved an hour ago or earlier
NoFreshRecord ==
    \/ file.kind = "absent"
    \/ file.kind = "json" /\ clock - file.obj.last_saved >= HOUR_NS

\* C1: when update_with_file finds a record saved within the last hour, the
\* session goes straight to Loaded with the record's average_offset and
\* initial_offset, and a session in Loaded has sent no servertime request and
\* was never sampling.
C1_FreshRecordIsLoaded ==
    [][ /\ (pc = "sync" /\ FreshRecord)
            => /\ sync_state' = "Loaded"
               /\ pc' = "mpv"
               /\ syncer'.average_offset = file.obj.time_sync_average_offset
               /\ syncer'.initial_offset = file.obj.time_sync_initial_offset
        /\ sync_state' = "Loaded"
            => /\ requests' = 0
               /\ sync_state \in {"Uninitialized", "Loaded"}
               /\ pc' \notin {"send", "recv", "save"} ]_vars

\* a fresh record has been loaded and the player runs on its offsets
C1_Witness ==
    /\ sync_state = "Loaded"
    /\ pc = "wait"
    /\ FreshRecord
    /\ syncer.average_offset = file.obj.time_sync_average_offset
    /\ syncer.average_offset.num # 0
    /\ syncer.initial_offset # 0

\* C2: with the sync file absent or its record an hour old or older,
\* update_with_file does not fail but starts the sampling; the file is written
\* only by the save step, which is reached with 15 samples taken, and what is
\* written is the session's average_offset and initial_offset with last_saved
\* read from the clock at the write.
C2_NoFreshRecordSamplesThenSaves ==
    [][ /\ (pc = "sync" /\ NoFreshRecord)
            => /\ pc' = "send"
               /\ sync_state' = "Sampling"
               /\ error' = "none"
               /\ file' = file
        /\ (pc = "save" \/ file' # file)
            => /\ pc = "save"
               /\ sync_state = "Synced"
               /\ syncer.sync_count = SYNC_ITERATIONS
               /\ requests = SYNC_ITERATIONS
               /\ syncer' = syncer
               /\ file' = [kind |-> "json",
                           obj |-> [last_saved |-> clock',
                                    time_sync_average_offset |-> syncer.average_offset,
                                    time_sync_initial_offset |-> syncer.initial_offset]] ]_vars

\* a run that found no fresh record has sampled and has just written the file
C2_Witness ==
    /\ pc = "mpv"
    /\ sync_state = "Synced"
    /\ file.kind = "json"
    /\ file.obj.last_saved = clock
    /\ file.obj.time_sync_average_offset = syncer.average_offset
    /\ syncer.aggregate_offset # 0

\* C3: a record is taken for fresh (and loaded) exactly when the clock's
\* reading less its last_saved is under one hour; at exactly one hour it is
\* not fresh.
C3_FreshIffYoungerThanAnHour ==
    [][ (pc = "sync" /\ file.kind = "json")
            => ((sync_state' = "Loaded") <=> (clock - file.obj.last_saved < HOUR_NS)) ]_vars

\* a record exactly one hour old was not loaded: the sampling has started
C3_Witness ==
    /\ sync_state = "Sampling"
    /\ pc = "send"
    /\ requests = 0
    /\ file.kind = "json"
    /\ clock - file.obj.last_saved = HOUR_NS

\* the sampling has returned
Sampled == pc = "save" /\ syncer.sync_count = SYNC_ITERATIONS

\* C4: initial_offset is 0 until the first sample and from then on the first
\* sample's (estimated server time at receipt - time_now), whatever samples
\* follow.
C4_InitialOffsetIsFirstSample ==
    IF observed.first = <<>>
    THEN syncer.initial_offset = 0
    ELSE syncer.initial_offset =
            Midpoint(observed.first[1], observed.first[2], observed.first[3])
            - observed.first[3]

\* the sampling has returned after later samples that differed from the first
C4_Witness ==
    /\ Sampled
    /\ observed.jitter
    /\ syncer.aggregate_offset # 0
    /\ syncer.initial_offset # 0

\* C5: with n samples taken, n >= 2, aggregate_offset is the sum over the
\* n - 1 later samples of (estimated server time - time_now - initial_offset)
\* and average_offset is aggregate_offset / (n - 1); after the first sample
\* alone both are still 0.
C5_AverageOverLaterSamples ==
    LET n == syncer.sync_count
        avg == syncer.average_offset
    IN  IF n >= 2
        THEN /\ syncer.aggregate_offset
                    = observed.later_sum - (n - 1) * syncer.initial_offset
             /\ avg.den > 0
             /\ avg.num * (n - 1) = syncer.aggregate_offset * avg.den
        ELSE syncer.aggregate_offset = 0 /\ avg.num = 0

\* the sampling has returned with an average that is k/14 in lowest terms
C5_Witness ==
    /\ Sampled
    /\ syncer.average_offset.den = SYNC_ITERATIONS - 1
    /\ syncer.aggregate_offset # 0

\* C6: when every sample had the same round-trip delay and the same
\* server-minus-local offset, the sampling returns with average_offset 0 and
\* get_server_time at local time t is t + initial_offset.
C6_ZeroJitterAverageIsZero ==
    (Sampled /\ ~observed.jitter)
        => /\ syncer.average_offset = Frac(0, 1)
           /\ \A t \in SimLocalTimes :
                GetServerTime(syncer, t) = t + syncer.initial_offset

\* the sampling has returned after 15 samples of one odd round-trip delay and
\* one offset, taken at different local times
C6_Witness ==
    /\ Sampled
    /\ ~observed.jitter
    /\ observed.varied
    /\ observed.first[3] - observed.first[1] = 41

\* the scenario of C7: no sync file, every sample sent at 460 and answered
\* with serverTime 1_000_000 at local time 500
C7_Scenario ==
    /\ Sampled
    /\ file = AbsentFile
    /\ observed.first = <<460, 1000000, 500>>
    /\ ~observed.varied

\* C7 as claimed: the scenario ends with initial_offset 1_000_520,
\* average_offset 0 and get_server_time at local time 500 giving 1_001_020.
C7_AsClaimed ==
    C7_Scenario
        => /\ syncer.initial_offset = 1000520
           /\ syncer.average_offset = Frac(0, 1)
           /\ GetServerTime(syncer, 500) = 1001020

\* C7, amended: the scenario ends with initial_offset 1_000_020 - 500 =
\* 999_520, average_offset 0 and get_server_time at local time 500 giving
\* 500 + 0 + 999_520 = 1_000_020.
C7_ScenarioOffsets ==
    C7_Scenario
        => /\ syncer.initial_offset = 999520
           /\ syncer.average_offset = Frac(0, 1)
           /\ GetServerTime(syncer, 500) = 1000020

\* the scenario of C7 has been played to the end of the sampling
C7_Witness == C7_Scenario /\ requests = SYNC_ITERATIONS

\* what the calls cs sent, in order
RECURSIVE Sent(_)
Sent(cs) == IF cs = <<>> THEN <<>> ELSE Head(cs).sent \o Sent(Tail(cs))

IsDeviceCommand(c) == c.to = "device"

\* the requests sent to the device in this run, in order
DeviceCommands == SelectSeq(Sent(calls), IsDeviceCommand)

\* e is int(t + average_offset + initial_offset): the sum cut toward zero
IsEstimateAt(e, t) ==
    LET den == syncer.average_offset.den
        x == (t + syncer.initial_offset) * den + syncer.average_offset.num
    IN  IF x >= 0 THEN e * den <= x /\ x < (e + 1) * den
                  ELSE (e - 1) * den < x /\ x <= e * den

\* C8: every call of sync_play sent exactly one request to the device: the
\* stop form a stop with no body, the play form a play whose body has the two
\* fields estimatedServerTime, the synchronizer's estimate at the call, and
\* startTime, the position passed.
C8_OneCommandPerSyncPlay ==
    \A i \in 1..Len(calls) :
        calls[i].fn = "sync_play" =>
            LET c == calls[i].sent
            IN  /\ Len(c) = 1
                /\ c[1].to = "device"
                /\ IF calls[i].stopped
                   THEN /\ c[1].cmd = "stop"
                        /\ DOMAIN c[1] = {"to", "cmd"}
                   ELSE /\ c[1].cmd = "play"
                        /\ DOMAIN c[1] = {"to", "cmd", "json"}
                        /\ DOMAIN c[1].json = {"estimatedServerTime", "startTime"}
                        /\ c[1].json.startTime = calls[i].time
                        /\ IsEstimateAt(c[1].json.estimatedServerTime,
                                        clock + EventGap * i)

\* sync_play has been called in its play form and in its stop form, on
\* offsets with a fractional average
C8_Witness ==
    /\ syncer.average_offset.den > 1
    /\ \E i, j \in 1..Len(calls) :
        /\ calls[i].fn = "sync_play" /\ ~calls[i].stopped
        /\ calls[i].time = SomePosition
        /\ calls[j].fn = "sync_play" /\ calls[j].stopped

\* what the handler of the last event sent
EventSent == Sent(SubSeq(calls, event.at + 1, Len(calls)))

\* cs is one play request starting at pos
IsPlayAt(cs, pos) ==
    /\ Len(cs) = 1
    /\ cs[1].to = "device"
    /\ cs[1].cmd = "play"
    /\ cs[1].json.startTime = pos

\* C9: a playback-restart event with a position sends play at that position;
\* pause turning true sends stop; pause turning false with a position sends
\* play at that position; the shutdown event and the q key send stop and
\* then, the stop request having returned, the player's quit command.
C9_EventsMapToCommands ==
    /\ (event.name = "playback-restart" /\ event.pos # None)
        => IsPlayAt(EventSent, event.pos)
    /\ (event.name = "pause" /\ event.value)
        => EventSent = <<[to |-> "device", cmd |-> "stop"]>>
    /\ (event.name = "pause" /\ ~event.value /\ event.pos # None)
        => IsPlayAt(EventSent, event.pos)
    /\ event.name \in {"shutdown", "q"}
        => EventSent = IF event.ok
                       THEN <<[to |-> "device", cmd |-> "stop"],
                              [to |-> "player", cmd |-> "quit"]>>
                       ELSE <<[to |-> "device", cmd |-> "stop"]>>

\* the shutdown event has been handled while the device was playing
C9_Witness ==
    /\ event.name = "shutdown"
    /\ event.ok
    /\ event.at >= 1
    /\ calls[event.at].fn = "sync_play"
    /\ ~calls[event.at].stopped

\* the script has ended after it started the player
ExitedAfterPlayerStart == pc \in {"exited", "crashed"} /\ player # "none"

\* no request to the device raised in this run
AllReturned == \A i \in 1..Len(calls) : calls[i].returned

\* C10 as claimed: when the script has ended after the player was started,
\* the device is not left playing: the last request it was sent, if any, is a
\* stop (stated for the runs in which every request to the device returned).
C10_StopBeforeExit ==
    (ExitedAfterPlayerStart /\ AllReturned)
        => (DeviceCommands = <<>> \/ Last(DeviceCommands).cmd = "stop")

\* C11: a servertime request that fails ends the run there: the script ends
\* by the error with the sampling unfinished, the file as it was and no
\* further request sent; a run ended in the sampling never started the player
\* and nothing follows in it; a request is followed by another only when
\* its answer has been counted (no retry); and the file is written by no run
\* that has not finished its sampling.
C11_SamplingFailureIsFatal ==
    [][ /\ (pc = "recv" /\ pc' = "crashed")
            => /\ error' = "DeviceUnreachable"
               /\ sync_state' = "Sampling"
               /\ file' = file
               /\ requests' = requests
               /\ syncer' = syncer
               /\ player' = "none"
        /\ (pc = "crashed" /\ sync_state = "Sampling")
            => /\ player = "none"
               /\ calls = <<>>
               /\ runs' = runs + 1
        /\ (pc = "recv" /\ pc' = "send") => syncer'.sync_count = requests
        /\ file' # file => sync_state = "Synced" ]_vars

\* the third servertime request of a run without a sync file has failed
C11_Witness ==
    /\ pc = "crashed"
    /\ error = "DeviceUnreachable"
    /\ sync_state = "Sampling"
    /\ requests = 3
    /\ syncer.sync_count = 2
    /\ file = AbsentFile

\* C12 as claimed: when the device request of the playback-restart handler or
\* of the pause observer fails, the error does not leave the handler.
C12_HandlerErrorsSwallowed ==
    (event.name \in {"playback-restart", "pause"} /\ ~event.ok) => ~uncaught

\* C13 as claimed: a run that finds a malformed sync file does not end by the
\* error of reading it.
C13_MalformedFileIsNotFatal ==
    file = MalformedFile => ~(pc = "crashed" /\ error = "ParseError")

\* C14 as claimed: startup gets past the mode check only with the device in
\* the required mode.
C14_ModeRecheckedAfterCorrection ==
    pc \in {"upload", "sync", "send", "recv", "save", "mpv", "wait"}
        => device_mode = REQUIRED_MODE

\* C15 as claimed: a missing script file does not end the run.
C15_MissingScriptIsNotFatal ==
    ~(pc = "crashed" /\ error = "ScriptNotFound")

\* C16: from_file after write_to on the same path returns the record written,
\* equal in last_saved, average_offset and initial_offset, and does not
\* raise, whether the path held nothing, unreadable content or another
\* record before the write.
C16_SaveThenLoadRoundTrip ==
    /\ pc = "done"
        => /\ loaded.last_saved = record.last_saved
           /\ loaded.average_offset = record.average_offset
           /\ loaded.initial_offset = record.initial_offset
    /\ pc # "crashed"

\* a record with a fractional negative average and a negative initial offset
\* has been written and read back
C16_Witness ==
    /\ pc = "done"
    /\ loaded = record
    /\ record.average_offset = Frac(-5, 2)
    /\ record.initial_offset < 0
    /\ record.last_saved > 0

\* servertime requests sent and not yet answered
Outstanding == requests - syncer.sync_count

\* C17: a sampling started on a new session with every request answered
\* comes to its end, and it does so after exactly 15 requests, with
\* sync_count 15; a request is sent only with none outstanding, so there is
\* never more than one.
C17_FifteenRoundTripsInSequence ==
    /\ [](/\ requests <= SYNC_ITERATIONS
          /\ Outstanding \in {0, 1}
          /\ pc = "send" => (Outstanding = 0 /\ syncer.sync_count < SYNC_ITERATIONS)
          /\ pc = "recv" => Outstanding = 1
          /\ pc = "save" => (requests = SYNC_ITERATIONS
                             /\ syncer.sync_count = SYNC_ITERATIONS))
    /\ <>(pc = "save")

\* the fifteenth answer has been processed and the sampling has returned
C17_Witness ==
    /\ pc = "save"
    /\ sync_state = "Synced"
    /\ requests = SYNC_ITERATIONS
    /\ Outstanding = 0

\* update_with_file has returned: the session is Loaded, or it is Synced and
\* its offsets are in the file
SyncCompleted ==
    \/ sync_state = "Loaded"
    \/ /\ sync_state = "Synced"
       /\ pc # "save"
       /\ syncer.sync_count = SYNC_ITERATIONS
       /\ file.kind = "json"
       /\ file.obj.time_sync_initial_offset = syncer.initial_offset

\* C18: in every run the player exists, and a request has been sent to the
\* device by sync_play, only when update_with_file has returned with the
\* session Loaded or Synced; a run that ended by an error before that has no
\* player and has sent no play or stop.
C18_NoPlayBeforeSync ==
    /\ (player # "none" \/ calls # <<>>) => SyncCompleted
    /\ (pc = "crashed" /\ ~SyncCompleted) => (player = "none" /\ calls = <<>>)

\* the first request sent to the device by a run that sampled is a play
C18_Witness ==
    /\ sync_state = "Synced"
    /\ DeviceCommands # <<>>
    /\ DeviceCommands[1].cmd = "play"
    /\ SyncCompleted

\* C19 as claimed: while the player runs paused, the request sent to the
\* device last is a stop (stated for the runs in which every request to the
\* device returned).
C19_DeviceFollowsPause ==
    (Playing /\ paused /\ AllReturned)
        => (DeviceCommands # <<>> /\ Last(DeviceCommands).cmd = "stop")

\* C20: a run whose session is Loaded writes nothing to the sync file, neither
\* when it loads the record nor later, so last_saved stays the time of the
\* sampling that wrote the record; the record it loaded was saved less than
\* an hour before the run read the clock; and its sync_count and
\* aggregate_offset are 0.
C20_LoadLeavesFileUnchanged ==
    [][ sync_state' = "Loaded"
            => /\ file' = file
               /\ file.kind = "json"
               /\ started' - file.obj.last_saved < HOUR_NS
               /\ syncer'.sync_count = 0
               /\ syncer'.aggregate_offset = 0 ]_vars

\* a second run plays on the record the first run's sampling saved
C20_Witness ==
    /\ runs = 2
    /\ sync_state = "Loaded"
    /\ pc = "wait"
    /\ file.obj.last_saved > StartClock
    /\ started - file.obj.last_saved < HOUR_NS
    /\ syncer.initial_offset = file.obj.time_sync_initial_offset

=============================================================================
